---- MODULE Spec2Model ----
(***************************************************************************)
(* Silence removal of audio_silence_remover.py and                         *)
(* video_silence_remover.py: one input file is converted to a working      *)
(* file, the silence detector's output is parsed and paired into           *)
(* intervals (latest first), and every interval is cut out of the working  *)
(* file by one probe / plan / edit / replace cycle.                        *)
(*                                                                         *)
(* Time is counted in whole units; a stream is the sequence of the         *)
(* original timeline's units it holds, unit i covering [i-1, i).           *)
(* A path is the sequence of its dot-separated components.                 *)
(***************************************************************************)
EXTENDS Integers, Sequences, FiniteSets, TLC

\* Length of the input's timeline, in units.
MaxLen == 6
\* Largest number of complete silences the detector reports.
MaxSil == 2
\* Largest --margin.
MaxMargin == 2

\* Longest --noise-threshold string tried.
MaxStr == 4
\* Most lines of detector text given to the parser.
MaxLines == 2
\* Most input files given to one run of main.
MaxInputs == 2

VARIABLES
    kind,             \* "audio" (audio_silence_remover) or "video" (video_silence_remover)
    input_file,       \* path of the input
    margin,           \* --margin
    fs,               \* the file system: path -> file or Absent
    pc,               \* position of the run
    failed_at,        \* the step whose engine call raised, "" when none
    output,           \* the detector's diagnostic text, a sequence of lines
    detect_rc,        \* the detector's exit status (never read by the code)
    silence_starts,   \* parsed from output
    silence_ends,     \* parsed from output
    intervals,        \* the paired interval list
    idx,              \* number of intervals of the list already applied
    total_duration,   \* local of remove_silence_segment
    plan,             \* filters and segments of remove_silence_segment
    versions,         \* history: the working file's content after 0, 1, ... edits
    durs,             \* history: total_duration used by each applied edit
    probe,            \* how the last ffprobe call ended: "none", "parsed", "unparsed", "error"
    noise,            \* --noise-threshold, a string of characters
    noise_param,      \* the threshold put into the silencedetect filter
    input_files,      \* main: args.input_files
    cleaned_wavs,     \* main: the working files returned so far
    infile,           \* main: index of the input the first loop is at
    mpc,              \* main: position, "idle" when main is not what runs
    todo,             \* main: intervals the current input still has to lose
    out_idx,          \* main: index of the input the output loop is at
    disk,             \* main: the file system, path -> whose audio the file holds
    touched,          \* history: path -> the inputs whose processing used the path
    failed_in,        \* main: index of the input whose engine call raised, 0 when none
    before,           \* history: the paths that held a file when main started
    confirmed         \* history: the outputs whose overwriting the user has allowed

runvars == <<kind, input_file, margin, fs, pc, failed_at, output, detect_rc,
             silence_starts, silence_ends, intervals, idx, total_duration, plan,
             versions, durs, probe, noise, noise_param>>

mainvars == <<input_files, cleaned_wavs, infile, mpc, todo, out_idx, disk, touched,
              failed_in, before, confirmed>>

vars == <<runvars, mainvars>>

\* The variables the steps of process_audio_file / process_video_file leave alone.
auxvars == <<noise, noise_param, mainvars>>

Min(a, b) == IF a < b THEN a ELSE b
Max(a, b) == IF a > b THEN a ELSE b

----------------------------------------------------------------------------
(* Files and paths *)

Absent == [exists |-> FALSE, complete |-> FALSE, data |-> [v |-> <<>>, a |-> <<>>]]
File(d) == [exists |-> TRUE, complete |-> TRUE, data |-> d]
\* A file an engine call has opened for writing and not finished.
Partial == [exists |-> TRUE, complete |-> FALSE, data |-> [v |-> <<>>, a |-> <<>>]]

Timeline == [i \in 1..MaxLen |-> i]

\* os.path.splitext(p)[0]: the path without its last extension.
splitext(p) == IF Len(p) > 1 THEN SubSeq(p, 1, Len(p) - 1) ELSE p

\* wav_file = base + ".wav" / working_video = base + ".temp_video.mp4"
WorkingPath(k, inp) ==
    IF k = "audio" THEN splitext(inp) \o <<"wav">>
    ELSE splitext(inp) \o <<"temp_video", "mp4">>

\* temp_wav = base + ".temp_audio.wav"
TempWav(inp) == splitext(inp) \o <<"temp_audio", "wav">>

\* Faulty variant: the edit writes straight onto the working file.
TmpOut_inplace(k, w) == w

\* tmp_out = input_wav + ".nosilence.wav" / input_video + ".nosilence.mp4"
TmpOut(k, w) ==
    IF k = "audio" THEN w \o <<"nosilence", "wav">> ELSE w \o <<"nosilence", "mp4">>

Inputs(k) ==
    IF k = "audio" THEN {<<"song", "m4a">>, <<"song", "wav">>} ELSE {<<"movie", "mkv">>}

Paths ==
    UNION {{i, WorkingPath(k, i), TempWav(i), TmpOut(k, WorkingPath(k, i))}
           : <<k, i>> \in ({"audio"} \X Inputs("audio")) \cup ({"video"} \X Inputs("video"))}

work == WorkingPath(kind, input_file)
tmp_out == TmpOut(kind, work)

\* Faulty variant: the duration measured before the first edit is reused.
Duration_initial(f) == MaxLen

\* What ffprobe reports for format=duration: the longest stream.
Duration(f) == Max(Len(f.data.v), Len(f.data.a))

----------------------------------------------------------------------------
(* The detector's output *)

\* The number ffmpeg prints after a marker (with %.6g): digits, with a
\* leading minus sign when neg, with an exponent suffix e-05 when exp.
Num(t) == [neg |-> FALSE, mant |-> t, exp |-> FALSE]

\* A line of the diagnostic text: s holds the number printed after
\* "silence_start:" when the line has that marker, e the number after
\* "silence_end:"; both are empty for any other line.
StartLine(t) == [s |-> <<Num(t)>>, e |-> <<>>]
EndLine(t) == [s |-> <<>>, e |-> <<Num(t)>>]
OtherLine == [s |-> <<>>, e |-> <<>>]

\* Chronological, non-overlapping silences of positive length in [lo, hi],
\* at most n of them.
RECURSIVE SilenceLists(_, _, _)
SilenceLists(n, lo, hi) ==
    IF n = 0 THEN {<<>>}
    ELSE {<<>>} \cup
         UNION {UNION {{<<[start |-> s, end |-> e]>> \o r : r \in SilenceLists(n - 1, e, hi)}
                       : e \in (s + 1)..hi}
                : s \in lo..(hi - 1)}

RECURSIVE Markers(_)
Markers(sil) ==
    IF sil = <<>> THEN <<>>
    ELSE <<StartLine(sil[1].start), EndLine(sil[1].end)>> \o Markers(Tail(sil))

LastEnd(sil) == IF sil = <<>> THEN 0 ELSE sil[Len(sil)].end

\* The texts ffmpeg's silencedetect can print for a stream of length hi: a
\* banner, the markers of the silences in order and, when the stream ends
\* in silence and the engine prints no closing marker, a last silence_start.
DetectorOutputs(hi) ==
    UNION {{<<OtherLine>> \o Markers(sil)}
           \cup {<<OtherLine>> \o Markers(sil) \o <<StartLine(t)>> : t \in LastEnd(sil)..(hi - 1)}
           : sil \in SilenceLists(MaxSil, 0, hi)}

----------------------------------------------------------------------------
(* detect_silence_intervals *)

\* re.search(r"silence_...:\s*([0-9.]+)", line) and float(m.group(1)) on
\* the number after a marker: the pattern takes the digits and dots that
\* follow the marker at once, so a minus sign leaves no match and an
\* exponent is cut off.
regex_float(tok) == IF tok.neg THEN <<>> ELSE <<tok.mant>>

\* What one line appends to a sequence, given its numbers after the marker.
Matches(toks) == IF toks = <<>> THEN <<>> ELSE regex_float(toks[1])

\* The loop over output.splitlines(): the values after silence_start:
RECURSIVE ParseStarts(_)
ParseStarts(lines) ==
    IF lines = <<>> THEN <<>> ELSE Matches(lines[1].s) \o ParseStarts(Tail(lines))

\* The loop over output.splitlines(): the values after silence_end:
RECURSIVE ParseEnds(_)
ParseEnds(lines) ==
    IF lines = <<>> THEN <<>> ELSE Matches(lines[1].e) \o ParseEnds(Tail(lines))

\* Faulty variant: the suffix is appended whatever the string ends with.
NoiseParam_always(s) == s \o <<"d", "B">>

\* noise if noise.endswith("dB") else noise + "dB"
NoiseParam(s) ==
    IF Len(s) >= 2 /\ s[Len(s) - 1] = "d" /\ s[Len(s)] = "B" THEN s ELSE s \o <<"d", "B">>

reversed(s) == [i \in 1..Len(s) |-> s[Len(s) + 1 - i]]

\* zip(a, b): pairs by position, as long as the shorter one.
zip(a, b) == [i \in 1..Min(Len(a), Len(b)) |-> <<a[i], b[i]>>]

\* Faulty variant: the margin is added to every start, zero included.
AddMargin_always(start, m) == start + m

\* if start != 0: start += margin
AddMargin(start, m) == IF start # 0 THEN start + m ELSE start

\* Faulty variant: the two sequences are paired without being reversed.
normalize_noreverse(starts, ends, m) ==
    LET z == zip(starts, ends)
    IN [i \in 1..Len(z) |-> [start |-> AddMargin(z[i][1], m), end |-> z[i][2]]]

\* for start, end in zip(reversed(silence_starts), reversed(silence_ends)): ...
normalize(starts, ends, m) ==
    LET z == zip(reversed(starts), reversed(ends))
    IN [i \in 1..Len(z) |-> [start |-> AddMargin(z[i][1], m), end |-> z[i][2]]]

----------------------------------------------------------------------------
(* remove_silence_segment / remove_silence_segment_video *)

NoPlan == [filters |-> <<>>, v_segments |-> <<>>, a_segments |-> <<>>]

\* Faulty variant: the fallback for unparseable output is an hour, not 0.0.
get_duration_fallbackHour(f, parses) == IF parses THEN Duration(f) ELSE 3600

\* get_audio_duration / get_media_duration on a successful ffprobe run:
\* float(stdout) when it parses, else 0.0.
get_duration(f, parses) == IF parses THEN Duration(f) ELSE 0

\* Faulty variant: the head test lets start == 0 through.
HasHead_ge(start) == start >= 0

\* if start > 0:
HasHead(start) == start > 0

\* Faulty variant: the tail test lets end == total_duration through.
HasTail_le(end, total) == end <= total

\* if end < total_duration:
HasTail(end, total) == end < total

\* Faulty variant: the tail is trimmed from the interval's start, not its end.
PlanAudio_tailFromStart(start, end, total) ==
    LET head == IF HasHead(start)
                THEN <<[stream |-> "a", from |-> 0, to |-> start, label |-> "a1"]>> ELSE <<>>
        tail == IF HasTail(end, total)
                THEN <<[stream |-> "a", from |-> start, to |-> total, label |-> "a2"]>> ELSE <<>>
    IN [filters |-> head \o tail,
        v_segments |-> <<>>,
        a_segments |-> [i \in 1..Len(head \o tail) |-> (head \o tail)[i].label]]

\* Lines 116-126 of audio_silence_remover.py.
PlanAudio(start, end, total) ==
    LET head == IF HasHead(start)
                THEN <<[stream |-> "a", from |-> 0, to |-> start, label |-> "a1"]>> ELSE <<>>
        tail == IF HasTail(end, total)
                THEN <<[stream |-> "a", from |-> end, to |-> total, label |-> "a2"]>> ELSE <<>>
    IN [filters |-> head \o tail,
        v_segments |-> <<>>,
        a_segments |-> [i \in 1..Len(head \o tail) |-> (head \o tail)[i].label]]

VLabel(i) == IF i = 1 THEN "v1" ELSE "v2"
ALabel(i) == IF i = 1 THEN "a1" ELSE "a2"

\* Faulty variant: the audio tail is trimmed from the interval's start.
PlanVideo_audioTailFromStart(start, end, total) ==
    LET head == IF HasHead(start)
                THEN <<[stream |-> "v", from |-> 0, to |-> start, label |-> VLabel(1)],
                       [stream |-> "a", from |-> 0, to |-> start, label |-> ALabel(1)]>>
                ELSE <<>>
        seg_index == IF HasHead(start) THEN 2 ELSE 1
        tail == IF HasTail(end, total)
                THEN <<[stream |-> "v", from |-> end, to |-> total, label |-> VLabel(seg_index)],
                       [stream |-> "a", from |-> start, to |-> total, label |-> ALabel(seg_index)]>>
                ELSE <<>>
        n == (Len(head) + Len(tail)) \div 2
    IN [filters |-> head \o tail,
        v_segments |-> [i \in 1..n |-> VLabel(i)],
        a_segments |-> [i \in 1..n |-> ALabel(i)]]

\* Lines 98-115 of video_silence_remover.py.
PlanVideo(start, end, total) ==
    LET head == IF HasHead(start)
                THEN <<[stream |-> "v", from |-> 0, to |-> start, label |-> VLabel(1)],
                       [stream |-> "a", from |-> 0, to |-> start, label |-> ALabel(1)]>>
                ELSE <<>>
        seg_index == IF HasHead(start) THEN 2 ELSE 1
        tail == IF HasTail(end, total)
                THEN <<[stream |-> "v", from |-> end, to |-> total, label |-> VLabel(seg_index)],
                       [stream |-> "a", from |-> end, to |-> total, label |-> ALabel(seg_index)]>>
                ELSE <<>>
        n == (Len(head) + Len(tail)) \div 2
    IN [filters |-> head \o tail,
        v_segments |-> [i \in 1..n |-> VLabel(i)],
        a_segments |-> [i \in 1..n |-> ALabel(i)]]

Plan(k, start, end, total) ==
    IF k = "audio" THEN PlanAudio(start, end, total) ELSE PlanVideo(start, end, total)

\* trim=from:to / atrim=from:to followed by setpts=PTS-STARTPTS: the units
\* of the stream whose time lies in [from, to), re-timed to start at 0.
Trim(stream, from, to) == SubSeq(stream, from + 1, Min(to, Len(stream)))

\* The stream a filter of the graph labels.
Labelled(p, data, label) ==
    LET f == CHOOSE g \in {p.filters[i] : i \in 1..Len(p.filters)} : g.label = label
    IN Trim(data[f.stream], f.from, f.to)

\* One segment: -map [segment]; two: concat of the two in the order listed.
MapOut(p, data, segs) ==
    IF Len(segs) = 0 THEN <<>>
    ELSE IF Len(segs) = 1 THEN Labelled(p, data, segs[1])
    ELSE Labelled(p, data, segs[1]) \o Labelled(p, data, segs[2])

\* What ffmpeg -filter_complex ... -map ... writes for a non-empty plan.
ApplyEdit(p, data) ==
    [v |-> MapOut(p, data, p.v_segments), a |-> MapOut(p, data, p.a_segments)]

----------------------------------------------------------------------------
(* The run: process_audio_file / process_video_file *)

InputData(k) == [v |-> IF k = "video" THEN Timeline ELSE <<>>, a |-> Timeline]

\* What the first ffmpeg call writes to the working file: the audio as WAV,
\* or a stream copy of the video.
Converted(k, data) == IF k = "audio" THEN [v |-> <<>>, a |-> data.a] ELSE data

\* The file the detector reads.
DetectPath(k, inp) == IF k = "audio" THEN WorkingPath(k, inp) ELSE TempWav(inp)

\* Faulty variant: the clean-up after detection removes the working file.
AfterDetect_removesWorking(k, inp, f) ==
    IF k = "video" THEN [f EXCEPT ![WorkingPath(k, inp)] = Absent] ELSE f

\* if os.path.exists(temp_wav): os.remove(temp_wav)   (video only)
AfterDetect(k, inp, f) ==
    IF k = "video" THEN [f EXCEPT ![TempWav(inp)] = Absent] ELSE f

\* os.replace(src, dst)
replace(f, src, dst) ==
    LET moved == f[src] IN [[f EXCEPT ![src] = Absent] EXCEPT ![dst] = moved]

\* Faulty variant: the loop stops one interval early.
MoreIntervals_skipLast(i, ivs) == i + 1 < Len(ivs)

\* for start, end in intervals: the loop has another interval to apply.
MoreIntervals(i, ivs) == i < Len(ivs)

cur == intervals[idx + 1]

\* default="-50" of --noise-threshold
DefaultNoise == <<"-", "5", "0">>

\* The input files main can be given.
MainInputs == {<<"a", "m4a">>, <<"a", "mp3">>, <<"a", "wav">>, <<"b", "m4a">>}

\* default_output = os.path.splitext(infile)[0] + ".mp3"
OutputMp3(inp) == splitext(inp) \o <<"mp3">>

MainPaths ==
    UNION {{i, WorkingPath("audio", i), TmpOut("audio", WorkingPath("audio", i)), OutputMp3(i)}
           : i \in MainInputs}

\* A file of main's file system: of is the input whose audio it holds (0:
\* none of this run's), cleaned whether the silences have been cut out.
Gone == [exists |-> FALSE, complete |-> FALSE, of |-> 0, cleaned |-> FALSE]
Holds(i, c) == [exists |-> TRUE, complete |-> TRUE, of |-> i, cleaned |-> c]
Unfinished == [exists |-> TRUE, complete |-> FALSE, of |-> 0, cleaned |-> FALSE]

\* main is not what runs.
MainIdle ==
    /\ input_files = <<>>
    /\ cleaned_wavs = <<>>
    /\ infile = 0
    /\ mpc = "idle"
    /\ todo = 0
    /\ out_idx = 0
    /\ disk = [p \in MainPaths |-> Gone]
    /\ touched = [p \in MainPaths |-> {}]
    /\ failed_in = 0
    /\ before = {}
    /\ confirmed = {}

Init ==
    /\ kind \in {"audio", "video"}
    /\ input_file \in Inputs(kind)
    /\ margin \in 0..MaxMargin
    /\ fs = [p \in Paths |-> IF p = input_file THEN File(InputData(kind)) ELSE Absent]
    /\ pc = "convert"
    /\ failed_at = ""
    /\ output = <<>>
    /\ detect_rc = 0
    /\ silence_starts = <<>>
    /\ silence_ends = <<>>
    /\ intervals = <<>>
    /\ idx = 0
    /\ total_duration = 0
    /\ plan = NoPlan
    /\ versions = <<>>
    /\ durs = <<>>
    /\ probe = "none"
    /\ noise = DefaultNoise
    /\ noise_param = <<>>
    /\ MainIdle

\* subprocess.run(["ffmpeg", "-y", "-i", input_file, ..., working], check=True)
\* ffmpeg refuses an output that is one of its inputs.
ConvertOk ==
    /\ pc = "convert"
    /\ work # input_file
    /\ fs' = [fs EXCEPT ![work] = File(Converted(kind, fs[input_file].data))]
    /\ pc' = IF kind = "video" THEN "extract" ELSE "detect"
    /\ versions' = <<Converted(kind, fs[input_file].data)>>
    /\ UNCHANGED auxvars
    /\ UNCHANGED <<probe, kind, input_file, margin, failed_at, output, detect_rc, silence_starts,
                   silence_ends, intervals, idx, total_duration, plan, durs>>

\* The same call exiting nonzero: CalledProcessError ends the run.
ConvertFail ==
    /\ pc = "convert"
    /\ fs' \in {fs} \cup (IF work # input_file THEN {[fs EXCEPT ![work] = Partial]} ELSE {})
    /\ pc' = "failed"
    /\ failed_at' = "convert"
    /\ UNCHANGED auxvars
    /\ UNCHANGED <<probe, kind, input_file, margin, output, detect_rc, silence_starts,
                   silence_ends, intervals, idx, total_duration, plan, versions, durs>>

\* Video: subprocess.run(cmd_extract, check=True) writes temp_wav.
ExtractOk ==
    /\ pc = "extract"
    /\ fs' = [fs EXCEPT ![TempWav(input_file)] = File([v |-> <<>>, a |-> fs[work].data.a])]
    /\ pc' = "detect"
    /\ UNCHANGED auxvars
    /\ UNCHANGED <<probe, kind, input_file, margin, failed_at, output, detect_rc, silence_starts,
                   silence_ends, intervals, idx, total_duration, plan, versions, durs>>

ExtractFail ==
    /\ pc = "extract"
    /\ fs' \in {fs, [fs EXCEPT ![TempWav(input_file)] = Partial]}
    /\ pc' = "failed"
    /\ failed_at' = "extract"
    /\ UNCHANGED auxvars
    /\ UNCHANGED <<probe, kind, input_file, margin, output, detect_rc, silence_starts,
                   silence_ends, intervals, idx, total_duration, plan, versions, durs>>

\* detect_silence_intervals: run the detector (its exit status is not
\* looked at), parse its stderr, pair and shift; video then removes temp_wav.
Detect ==
    /\ pc = "detect"
    /\ \E out \in DetectorOutputs(Duration(fs[DetectPath(kind, input_file)])), rc \in {0, 1} :
          /\ output' = out
          /\ detect_rc' = rc
          /\ silence_starts' = ParseStarts(out)
          /\ silence_ends' = ParseEnds(out)
          /\ intervals' = normalize(ParseStarts(out), ParseEnds(out), margin)
    /\ fs' = AfterDetect(kind, input_file, fs)
    /\ idx' = 0
    /\ pc' = "loop"
    /\ noise_param' = NoiseParam(noise)
    /\ UNCHANGED <<noise, mainvars>>
    /\ UNCHANGED <<probe, kind, input_file, margin, failed_at, total_duration, plan, versions, durs>>

\* The for loop takes the next interval and calls remove_silence_segment.
LoopNext ==
    /\ pc = "loop"
    /\ MoreIntervals(idx, intervals)
    /\ pc' = "probe"
    /\ UNCHANGED auxvars
    /\ UNCHANGED <<probe, kind, input_file, margin, fs, failed_at, output, detect_rc, silence_starts,
                   silence_ends, intervals, idx, total_duration, plan, versions, durs>>

\* The for loop is exhausted: return the working file.
LoopDone ==
    /\ pc = "loop"
    /\ ~MoreIntervals(idx, intervals)
    /\ pc' = "done"
    /\ UNCHANGED auxvars
    /\ UNCHANGED <<probe, kind, input_file, margin, fs, failed_at, output, detect_rc, silence_starts,
                   silence_ends, intervals, idx, total_duration, plan, versions, durs>>

\* total_duration = get_..._duration(input); then the filters and segments.
ProbeOk ==
    /\ pc = "probe"
    /\ \E parses \in BOOLEAN :
          /\ probe' = IF parses THEN "parsed" ELSE "unparsed"
          /\ total_duration' = get_duration(fs[work], parses)
          /\ plan' = Plan(kind, cur.start, cur.end, get_duration(fs[work], parses))
    /\ pc' = "edit"
    /\ UNCHANGED auxvars
    /\ UNCHANGED <<kind, input_file, margin, fs, failed_at, output, detect_rc, silence_starts,
                   silence_ends, intervals, idx, versions, durs>>

\* ffprobe exits nonzero: check=True raises.
ProbeFail ==
    /\ pc = "probe"
    /\ probe' = "error"
    /\ pc' = "failed"
    /\ failed_at' = "probe"
    /\ UNCHANGED auxvars
    /\ UNCHANGED <<kind, input_file, margin, fs, output, detect_rc, silence_starts,
                   silence_ends, intervals, idx, total_duration, plan, versions, durs>>

\* Empty plan: shutil.copy(input, tmp_out) starts writing tmp_out.
CopyStart ==
    /\ pc = "edit"
    /\ Len(plan.a_segments) = 0
    /\ fs' = [fs EXCEPT ![tmp_out] = Partial]
    /\ pc' = "copying"
    /\ UNCHANGED auxvars
    /\ UNCHANGED <<probe, kind, input_file, margin, failed_at, output, detect_rc, silence_starts,
                   silence_ends, intervals, idx, total_duration, plan, versions, durs>>

\* shutil.copy returns: tmp_out is a copy of the working file.
CopyFinish ==
    /\ pc = "copying"
    /\ fs' = [fs EXCEPT ![tmp_out] = File(fs[work].data)]
    /\ pc' = "replace"
    /\ UNCHANGED auxvars
    /\ UNCHANGED <<probe, kind, input_file, margin, failed_at, output, detect_rc, silence_starts,
                   silence_ends, intervals, idx, total_duration, plan, versions, durs>>

\* shutil.copy raises OSError.
CopyFail ==
    /\ pc = "copying"
    /\ pc' = "failed"
    /\ failed_at' = "copy"
    /\ UNCHANGED auxvars
    /\ UNCHANGED <<probe, kind, input_file, margin, fs, output, detect_rc, silence_starts,
                   silence_ends, intervals, idx, total_duration, plan, versions, durs>>

\* Non-empty plan: ffmpeg -y -i input -filter_complex ... tmp_out opens tmp_out.
EditStart ==
    /\ pc = "edit"
    /\ Len(plan.a_segments) > 0
    /\ fs' = [fs EXCEPT ![tmp_out] = Partial]
    /\ pc' = "writing"
    /\ UNCHANGED auxvars
    /\ UNCHANGED <<probe, kind, input_file, margin, failed_at, output, detect_rc, silence_starts,
                   silence_ends, intervals, idx, total_duration, plan, versions, durs>>

\* ffmpeg exits 0: tmp_out holds the edited streams.
EditFinish ==
    /\ pc = "writing"
    /\ fs' = [fs EXCEPT ![tmp_out] = File(ApplyEdit(plan, fs[work].data))]
    /\ pc' = "replace"
    /\ UNCHANGED auxvars
    /\ UNCHANGED <<probe, kind, input_file, margin, failed_at, output, detect_rc, silence_starts,
                   silence_ends, intervals, idx, total_duration, plan, versions, durs>>

\* ffmpeg exits nonzero, before or while writing: check=True raises.
EditFail ==
    /\ \/ pc = "writing"
       \/ pc = "edit" /\ Len(plan.a_segments) > 0
    /\ pc' = "failed"
    /\ failed_at' = "edit"
    /\ UNCHANGED auxvars
    /\ UNCHANGED <<probe, kind, input_file, margin, fs, output, detect_rc, silence_starts,
                   silence_ends, intervals, idx, total_duration, plan, versions, durs>>

\* os.replace(tmp_out, input): the edit's output becomes the working file.
Replace ==
    /\ pc = "replace"
    /\ fs' = replace(fs, tmp_out, work)
    /\ idx' = idx + 1
    /\ versions' = Append(versions, replace(fs, tmp_out, work)[work].data)
    /\ durs' = Append(durs, total_duration)
    /\ pc' = "loop"
    /\ UNCHANGED auxvars
    /\ UNCHANGED <<probe, kind, input_file, margin, failed_at, output, detect_rc, silence_starts,
                   silence_ends, intervals, total_duration, plan>>

Next ==
    \/ ConvertOk
    \/ ConvertFail
    \/ ExtractOk
    \/ ExtractFail
    \/ Detect
    \/ LoopNext
    \/ LoopDone
    \/ ProbeOk
    \/ ProbeFail
    \/ CopyStart
    \/ CopyFinish
    \/ CopyFail
    \/ EditStart
    \/ EditFinish
    \/ EditFail
    \/ Replace

Spec == Init /\ [][Next]_vars

----------------------------------------------------------------------------
(* Properties *)

\* detect_silence_intervals has returned.
Detected ==
    \/ pc \in {"loop", "probe", "edit", "copying", "writing", "replace", "done"}
    \/ pc = "failed" /\ failed_at \in {"probe", "edit", "copy"}

\* The detector printed as many silence_start as silence_end markers.
EqualCounts == Len(silence_starts) = Len(silence_ends)

\* C2: for a detector output with equal counts of start and end markers,
\* normalize returns exactly that many intervals, latest first and
\* non-overlapping: intervals[i].start >= intervals[i+1].end, whatever the
\* margin.
C2_LatestFirst ==
    (Detected /\ EqualCounts) =>
        /\ Len(intervals) = Len(silence_starts)
        /\ \A i \in 1..(Len(intervals) - 1) : intervals[i].start >= intervals[i + 1].end

C2_Witness ==
    /\ Detected /\ EqualCounts
    /\ Len(intervals) = 2
    /\ margin > 0
    /\ intervals[1].start > intervals[2].end

\* C3: every interval's end is the raw end it was paired with; its start
\* is the raw start when that is 0 and the raw start plus the margin
\* otherwise.
C3_MarginPolicy ==
    Detected =>
        \A i \in 1..Len(intervals) :
            LET raw_start == silence_starts[Len(silence_starts) + 1 - i]
                raw_end == silence_ends[Len(silence_ends) + 1 - i]
            IN /\ intervals[i].end = raw_end
               /\ raw_start = 0 => intervals[i].start = 0
               /\ raw_start # 0 => intervals[i].start = raw_start + margin

C3_Witness ==
    /\ Detected /\ EqualCounts
    /\ margin > 0
    /\ Len(intervals) = 2
    /\ silence_starts[1] = 0
    /\ intervals[2].start = 0
    /\ intervals[1].start = silence_starts[2] + margin

\* The output's one surplus marker is a final silence_start.
TrailingStart ==
    /\ Len(silence_starts) = Len(silence_ends) + 1
    /\ output # <<>>
    /\ output[Len(output)].s # <<>>

\* C6: with one final unmatched silence_start, normalize returns
\* min(len(starts), len(ends)) intervals and they are the intervals of the
\* same output without that final start.
C6_TrailingStartDropped ==
    (Detected /\ TrailingStart) =>
        LET n == Len(silence_ends)
        IN /\ Len(intervals) = n
           /\ \A i \in 1..n :
                 /\ intervals[i].start = AddMargin(silence_starts[n + 1 - i], margin)
                 /\ intervals[i].end = silence_ends[n + 1 - i]

\* C7: with a chronological, non-overlapping detector output, every
\* interval handed to the planner has 0 <= start <= end, whatever the
\* margin.
C7_IntervalsWellFormed ==
    (Detected /\ EqualCounts) =>
        \A i \in 1..Len(intervals) :
            0 <= intervals[i].start /\ intervals[i].start <= intervals[i].end

\* remove_silence_segment has computed total_duration and the plan for cur.
Planned == pc \in {"edit", "copying", "writing", "replace"}

\* The segments of the timeline the plan keeps, in the order of its
\* audio segment labels.
KeptSegments(p) ==
    [i \in 1..Len(p.a_segments) |->
        LET f == CHOOSE g \in {p.filters[j] : j \in 1..Len(p.filters)} :
                     g.label = p.a_segments[i]
        IN [from |-> f.from, to |-> f.to]]

RECURSIVE SumLengths(_)
SumLengths(segs) ==
    IF segs = <<>> THEN 0 ELSE (segs[1].to - segs[1].from) + SumLengths(Tail(segs))

\* C4: the plan holds the head [0, start) iff start > 0 and the tail
\* [end, total_duration) iff end < total_duration, head before tail, and
\* nothing else.
C4_HeadTail ==
    Planned =>
        KeptSegments(plan) =
            (IF cur.start > 0 THEN <<[from |-> 0, to |-> cur.start]>> ELSE <<>>)
            \o (IF cur.end < total_duration
                THEN <<[from |-> cur.end, to |-> total_duration]>> ELSE <<>>)

C4_Witness ==
    /\ pc = "edit"
    /\ kind = "audio"
    /\ cur.start > 0
    /\ cur.end < total_duration
    /\ Len(KeptSegments(plan)) = 2
    /\ KeptSegments(plan)[1].from = 0
    /\ KeptSegments(plan)[2].to = total_duration

\* C5 as stated: the plan has at most 2 segments and their lengths sum to
\* duration - (end - start), clamped to >= 0.
C5_SumClamped ==
    Planned =>
        /\ Len(KeptSegments(plan)) \in {0, 1, 2}
        /\ SumLengths(KeptSegments(plan))
              = Max(total_duration - (cur.end - cur.start), 0)

\* C5 amended: the plan has at most 2 segments; their lengths sum to
\* duration - (end - start) when end <= duration, and to start (the head
\* alone) when end > duration.
C5_SumKept ==
    Planned =>
        /\ Len(KeptSegments(plan)) \in {0, 1, 2}
        /\ cur.end <= total_duration =>
              SumLengths(KeptSegments(plan)) = total_duration - (cur.end - cur.start)
        /\ cur.end > total_duration =>
              SumLengths(KeptSegments(plan)) = cur.start

C5_Witness ==
    /\ pc = "edit"
    /\ cur.start > 0
    /\ cur.end > total_duration
    /\ Len(KeptSegments(plan)) = 1
    /\ SumLengths(KeptSegments(plan)) = cur.start

\* C8: an interval with start == 0 and end >= the current duration gets an
\* empty plan, and the step leaves the working file's content as it was.
C8_WholeFileSilence ==
    /\ (Planned /\ cur.start = 0 /\ cur.end >= total_duration) =>
          /\ plan = NoPlan
          /\ pc \in {"edit", "copying", "replace"}
          /\ pc = "replace" => fs[tmp_out] = fs[work]
    /\ Detected =>
          \A j \in 1..idx :
              (intervals[j].start = 0 /\ intervals[j].end >= durs[j]) =>
                  versions[j + 1] = versions[j]

C8_Witness ==
    /\ pc = "loop"
    /\ idx = 1
    /\ intervals[1].start = 0
    /\ intervals[1].end >= durs[1]
    /\ durs[1] = MaxLen
    /\ fs[work].data = versions[1]

\* C9: with no interval detected, no edit is made and the working file
\* ends with the content it started with.
C9_NoIntervalsNoEdit ==
    (Detected /\ Len(intervals) = 0) =>
        /\ pc \in {"loop", "done"}
        /\ idx = 0
        /\ Len(versions) = 1
        /\ fs[work] = File(versions[1])
        /\ fs[tmp_out] = Absent

C9_Witness ==
    /\ pc = "done"
    /\ Len(intervals) = 0
    /\ silence_starts = <<>>
    /\ fs[work] = File(Converted(kind, InputData(kind)))

\* C10: throughout the edit loop the working file is a complete version,
\* the result of exactly idx successful edits; an edit's output is written
\* to another path and is complete when it is renamed over the working file.
C10_WorkingFileComplete ==
    Detected =>
        /\ tmp_out # work
        /\ fs[work].exists /\ fs[work].complete
        /\ Len(versions) = idx + 1
        /\ fs[work].data = versions[idx + 1]
        /\ pc = "replace" => fs[tmp_out].exists /\ fs[tmp_out].complete

C10_Witness ==
    /\ pc = "writing"
    /\ idx = 1
    /\ fs[tmp_out] = Partial
    /\ fs[work] = File(versions[2])
    /\ versions[2] # versions[1]

\* The unit u of the timeline, covering [u-1, u), lies in [iv.start, iv.end).
InInterval(u, iv) == iv.start < u /\ u <= iv.end

\* The stream with the first k intervals of ivs cut out.
Removed(stream, ivs, k) ==
    SelectSeq(stream, LAMBDA u : \A j \in 1..k : ~InInterval(u, ivs[j]))

\* The interval list is a list of intervals (start <= end) that do not
\* overlap one another and lie inside the input's duration.
ValidIntervalList ==
    /\ \A i \in 1..Len(intervals) :
          /\ 0 <= intervals[i].start
          /\ intervals[i].start <= intervals[i].end
          /\ intervals[i].end <= MaxLen
    /\ \A i, j \in 1..Len(intervals) :
          i # j => \/ intervals[i].start >= intervals[j].end
                   \/ intervals[j].start >= intervals[i].end

\* Every probe so far reported the duration of the working file it was
\* asked about (its output parsed).
ProbesTrue == \A j \in 1..idx : durs[j] = Max(Len(versions[j].v), Len(versions[j].a))

\* Step j found its interval covering the whole working file and copied
\* the file instead of cutting.
WholeFile(j) == intervals[j].start = 0 /\ intervals[j].end >= durs[j]

\* The stream with those of the first k intervals cut out whose step was
\* not a whole-file copy.
RemovedExceptWhole(stream, k) ==
    SelectSeq(stream, LAMBDA u : \A j \in 1..k : WholeFile(j) \/ ~InInterval(u, intervals[j]))

\* C1 as stated: for a list of non-overlapping silence intervals inside the
\* file's duration, after the first idx intervals of the latest-first list
\* have been applied the working file is the original timeline with exactly
\* those intervals removed, the rest in its original order; so everything
\* before the end of the next interval still sits at its original time.
C1_AllIntervalsRemoved ==
    (Detected /\ ValidIntervalList) =>
        /\ fs[work].data = [v |-> Removed(versions[1].v, intervals, idx),
                            a |-> Removed(versions[1].a, intervals, idx)]
        /\ idx < Len(intervals) =>
              \A u \in 1..intervals[idx + 1].end :
                  /\ u <= Len(fs[work].data.a)
                  /\ fs[work].data.a[u] = versions[1].a[u]

\* C1 amended: the same, when every probe reported the working file's
\* duration, and except that an interval found to cover the whole working
\* file (start == 0, end >= duration) is not removed: its step leaves the
\* file as it was.
C1_LatestFirstKeepsTimeline ==
    (Detected /\ ValidIntervalList /\ ProbesTrue) =>
        /\ fs[work].data = [v |-> RemovedExceptWhole(versions[1].v, idx),
                            a |-> RemovedExceptWhole(versions[1].a, idx)]
        /\ idx < Len(intervals) =>
              \A u \in 1..intervals[idx + 1].end :
                  /\ u <= Len(fs[work].data.a)
                  /\ fs[work].data.a[u] = versions[1].a[u]

C1_Witness ==
    /\ pc = "done"
    /\ ValidIntervalList /\ ProbesTrue
    /\ idx = 2
    /\ margin > 0
    /\ intervals[2].start > 0
    /\ intervals[1].end < MaxLen
    /\ intervals[1].start < intervals[1].end
    /\ intervals[2].start < intervals[2].end
    /\ Len(fs[work].data.a) = MaxLen - (intervals[1].end - intervals[1].start)
                                     - (intervals[2].end - intervals[2].start)


----------------------------------------------------------------------------
(* Engine failures, the probe and the loop *)

\* C12: a detector run that exits nonzero is fatal for the input: no
\* interval list is derived from it, no edit is applied and the run does
\* not return a result.
C12_DetectFailureFatal ==
    detect_rc # 0 =>
        /\ pc = "failed"
        /\ intervals = <<>>
        /\ idx = 0

\* C13: when ffprobe succeeds but prints no parseable number the duration
\* is 0.0, nothing is raised, and the plan has no tail: the head alone when
\* start > 0, else the verbatim copy; the probe aborts the run only when
\* ffprobe itself exits nonzero.
C13_UnparsedProbe ==
    /\ (Planned /\ probe = "unparsed") =>
          /\ total_duration = 0
          /\ cur.start > 0 => KeptSegments(plan) = <<[from |-> 0, to |-> cur.start]>>
          /\ cur.start = 0 => plan = NoPlan /\ pc \in {"edit", "copying", "replace"}
    /\ (pc = "failed" /\ failed_at = "probe") <=> probe = "error"

C13_Witness ==
    /\ pc = "replace"
    /\ probe = "unparsed"
    /\ cur.start > 0
    /\ cur.end < MaxLen
    /\ fs[tmp_out] = File(ApplyEdit(plan, fs[work].data))
    /\ Len(fs[tmp_out].data.a) = cur.start

\* The filter of the plan with the given label.
FilterOf(p, label) ==
    CHOOSE g \in {p.filters[j] : j \in 1..Len(p.filters)} : g.label = label

\* C15: the video plan trims the video and the audio stream at the same
\* boundaries for every kept segment, lists both in the same head-then-tail
\* order, and keeps the segments the audio-only plan keeps for the same
\* (start, end, duration); the edited streams stay in step.
C15_VideoLockstep ==
    /\ (Planned /\ kind = "video") =>
          /\ Len(plan.v_segments) = Len(plan.a_segments)
          /\ \A i \in 1..Len(plan.v_segments) :
                LET fv == FilterOf(plan, plan.v_segments[i])
                    fa == FilterOf(plan, plan.a_segments[i])
                IN /\ fv.stream = "v" /\ fa.stream = "a"
                   /\ fv.from = fa.from /\ fv.to = fa.to
          /\ KeptSegments(plan) = KeptSegments(PlanAudio(cur.start, cur.end, total_duration))
    /\ (Detected /\ kind = "video") => fs[work].data.v = fs[work].data.a

C15_Witness ==
    /\ pc = "loop"
    /\ kind = "video"
    /\ idx = 1
    /\ intervals[1].start > 0
    /\ intervals[1].end < durs[1]
    /\ Len(plan.v_segments) = 2
    /\ fs[work].data.v = fs[work].data.a
    /\ Len(fs[work].data.v) < MaxLen

\* C18: one probe-plan-edit-replace cycle per interval, in list order, one
\* edit at a time, the next interval not probed before the previous output
\* has replaced the working file; with every engine call succeeding the
\* run can always take its next step and is done after exactly
\* len(intervals) cycles.
C18_OneCyclePerInterval ==
    Detected =>
        /\ idx <= Len(intervals)
        /\ Len(durs) = idx
        /\ Len(versions) = idx + 1
        /\ pc \in {"probe", "edit", "copying", "writing", "replace"} => idx < Len(intervals)
        /\ Planned => plan = Plan(kind, intervals[idx + 1].start, intervals[idx + 1].end,
                                  total_duration)
        /\ pc \in {"loop", "probe", "edit", "done"} =>
              fs[tmp_out] = Absent /\ fs[work] = File(versions[idx + 1])
        /\ pc = "done" => idx = Len(intervals)
        /\ pc = "failed" => failed_at # ""
        /\ pc \notin {"done", "failed"} =>
              ENABLED (LoopNext \/ LoopDone \/ ProbeOk \/ CopyStart \/ CopyFinish
                       \/ EditStart \/ EditFinish \/ Replace)

C18_Witness ==
    /\ pc = "done"
    /\ Len(intervals) = 2
    /\ idx = 2
    /\ Len(durs) = 2
    /\ failed_at = ""

\* C19: the duration a step plans with is the one probed in that step on
\* the working file as the previous edits left it (0.0 when the probe's
\* output does not parse), not the duration measured before the first edit.
C19_DurationReprobed ==
    Planned =>
        LET current == Max(Len(versions[idx + 1].v), Len(versions[idx + 1].a))
        IN /\ probe \in {"parsed", "unparsed"}
           /\ probe = "parsed" => total_duration = current
           /\ probe = "unparsed" => total_duration = 0
           /\ \A i \in 1..Len(KeptSegments(plan)) :
                 KeptSegments(plan)[i].from # 0 => KeptSegments(plan)[i].to = total_duration

C19_Witness ==
    /\ pc = "edit"
    /\ idx = 1
    /\ probe = "parsed"
    /\ total_duration < durs[1]
    /\ total_duration = Len(fs[work].data.a)
    /\ Len(KeptSegments(plan)) = 2
    /\ KeptSegments(plan)[2].to = total_duration

\* C20: when the engine fails on the edit of interval idx + 1 the working
\* file keeps the content the previous idx edits gave it, no later
\* interval is planned or applied, and the run ends failed, not done.
C20_FailedEditKeepsWorkingFile ==
    (pc = "failed" /\ failed_at \in {"edit", "copy"}) =>
        /\ idx < Len(intervals)
        /\ Len(versions) = idx + 1
        /\ Len(durs) = idx
        /\ fs[work] = File(versions[idx + 1])
        /\ ~ENABLED Next

C20_Witness ==
    /\ pc = "failed"
    /\ failed_at = "edit"
    /\ idx = 1
    /\ Len(intervals) = 2
    /\ fs[tmp_out] = Partial
    /\ fs[work] = File(versions[2])
    /\ versions[2] # versions[1]


----------------------------------------------------------------------------
(* The threshold suffix and the parser, on their own inputs *)

\* The run variables the threshold suffix and the parser do not use.
RunUnused ==
    /\ kind = "audio"
    /\ input_file = <<"song", "m4a">>
    /\ margin = 0
    /\ fs = [p \in Paths |-> Absent]
    /\ failed_at = ""
    /\ detect_rc = 0
    /\ intervals = <<>>
    /\ idx = 0
    /\ total_duration = 0
    /\ plan = NoPlan
    /\ versions = <<>>
    /\ durs = <<>>
    /\ probe = "none"

Alphabet == {"5", "d", "B", "b"}

\* The strings over the alphabet of length at most n.
Strings(n) == UNION {[1..k -> Alphabet] : k \in 0..n}

ThresholdInit ==
    /\ RunUnused
    /\ MainIdle
    /\ pc = "threshold"
    /\ output = <<>>
    /\ silence_starts = <<>>
    /\ silence_ends = <<>>
    /\ noise \in Strings(MaxStr)
    /\ noise_param = <<>>

\* detect_silence_intervals builds noise_param from noise.
BuildNoiseParam ==
    /\ pc = "threshold"
    /\ noise_param' = NoiseParam(noise)
    /\ pc' = "threshold_set"
    /\ UNCHANGED <<kind, input_file, margin, fs, failed_at, output, detect_rc, silence_starts,
                   silence_ends, intervals, idx, total_duration, plan, versions, durs, probe,
                   noise, mainvars>>

\* The threshold just built is given as the threshold of another call.
PassAgain ==
    /\ pc = "threshold_set"
    /\ noise' = noise_param
    /\ noise_param' = <<>>
    /\ pc' = "threshold"
    /\ UNCHANGED <<kind, input_file, margin, fs, failed_at, output, detect_rc, silence_starts,
                   silence_ends, intervals, idx, total_duration, plan, versions, durs, probe,
                   mainvars>>

ThresholdNext ==
    \/ BuildNoiseParam
    \/ PassAgain

ThresholdSpec == ThresholdInit /\ [][ThresholdNext]_vars

\* The numbers a detector line can carry after a marker.
NumberTexts ==
    {Num(1), Num(2),
     [neg |-> TRUE, mant |-> 1, exp |-> FALSE],
     [neg |-> FALSE, mant |-> 1, exp |-> TRUE]}

\* Lines with either marker, both or none.
DetectorLines ==
    {[s |-> a, e |-> b] : a, b \in {<<>>} \cup {<<n>> : n \in NumberTexts}}

ParseInit ==
    /\ RunUnused
    /\ MainIdle
    /\ pc = "parse"
    /\ output \in UNION {[1..k -> DetectorLines] : k \in 0..MaxLines}
    /\ silence_starts = <<>>
    /\ silence_ends = <<>>
    /\ noise = DefaultNoise
    /\ noise_param = <<>>

\* detect_silence_intervals, lines 81-93: the loop over output.splitlines().
ParseOutput ==
    /\ pc = "parse"
    /\ silence_starts' = ParseStarts(output)
    /\ silence_ends' = ParseEnds(output)
    /\ pc' = "parsed"
    /\ UNCHANGED <<kind, input_file, margin, fs, failed_at, output, detect_rc,
                   intervals, idx, total_duration, plan, versions, durs, probe,
                   noise, noise_param, mainvars>>

ParseNext == ParseOutput

ParseSpec == ParseInit /\ [][ParseNext]_vars

----------------------------------------------------------------------------
(* main of audio_silence_remover.py: every input is processed, then every  *)
(* working file is converted to MP3 and removed.  The run is without -o.   *)

\* The lists of 1..n different input files.
InputLists(n) ==
    {l \in UNION {[1..k -> MainInputs] : k \in 1..n} :
        \A i, j \in 1..Len(l) : i # j => l[i] # l[j]}

wav_file == WorkingPath("audio", input_files[infile])
cleaned_wav == cleaned_wavs[out_idx]
output_mp3 == OutputMp3(input_files[out_idx])

\* The processing of input i has used the paths ps.
Touch(ps, i) == [p \in MainPaths |-> IF p \in ps THEN touched[p] \cup {i} ELSE touched[p]]

\* The paths the run of main on the list l of inputs uses besides the inputs.
UsedPaths(l) ==
    UNION {{WorkingPath("audio", l[i]), TmpOut("audio", WorkingPath("audio", l[i])),
            OutputMp3(l[i])} : i \in 1..Len(l)}

\* Files that are there before the run: the inputs, and any other file
\* that happens to be at a path the run uses.
MainInit ==
    /\ RunUnused
    /\ pc = "main"
    /\ output = <<>>
    /\ silence_starts = <<>>
    /\ silence_ends = <<>>
    /\ noise = DefaultNoise
    /\ noise_param = <<>>
    /\ input_files \in InputLists(MaxInputs)
    /\ cleaned_wavs = <<>>
    /\ infile = 1
    /\ mpc = "convert"
    /\ todo = 0
    /\ out_idx = 1
    /\ \E old \in SUBSET UsedPaths(input_files) :
         disk = [p \in MainPaths |->
                    IF \E i \in 1..Len(input_files) : input_files[i] = p
                    THEN Holds(CHOOSE i \in 1..Len(input_files) : input_files[i] = p, FALSE)
                    ELSE IF p \in old THEN Holds(0, FALSE) ELSE Gone]
    /\ touched = [p \in MainPaths |-> {}]
    /\ failed_in = 0
    /\ before = {p \in MainPaths : disk[p].exists}
    /\ confirmed = {}

\* process_audio_file, line 169: the conversion to WAV succeeds.
MainConvertOk ==
    /\ mpc = "convert"
    /\ wav_file # input_files[infile]
    /\ disk[input_files[infile]].exists /\ disk[input_files[infile]].complete
    /\ disk' = [disk EXCEPT ![wav_file] = Holds(disk[input_files[infile]].of, FALSE)]
    /\ touched' = Touch({input_files[infile], wav_file}, infile)
    /\ mpc' = "detect"
    /\ UNCHANGED <<runvars, before, confirmed, input_files, cleaned_wavs, infile, todo, out_idx, failed_in>>

\* process_audio_file, line 169: the conversion raises; nothing in main
\* catches it.
MainConvertFail ==
    /\ mpc = "convert"
    /\ \E f \in IF wav_file = input_files[infile] THEN {disk[wav_file]}
                ELSE {disk[wav_file], Unfinished} :
         disk' = [disk EXCEPT ![wav_file] = f]
    /\ touched' = Touch({input_files[infile], wav_file}, infile)
    /\ failed_in' = infile
    /\ mpc' = "crashed"
    /\ UNCHANGED <<runvars, before, confirmed, input_files, cleaned_wavs, infile, todo, out_idx>>

\* process_audio_file, line 171: the detector reads the working file.
MainDetect ==
    /\ mpc = "detect"
    /\ todo' \in 0..MaxSil
    /\ touched' = Touch({wav_file}, infile)
    /\ mpc' = "edit"
    /\ UNCHANGED <<runvars, before, confirmed, input_files, cleaned_wavs, infile, out_idx, disk, failed_in>>

\* remove_silence_segment: one interval is cut out, the temporary file
\* replaces the working file.
MainEditOk ==
    /\ mpc = "edit"
    /\ todo > 0
    /\ disk[wav_file].exists /\ disk[wav_file].complete
    /\ disk' = [disk EXCEPT ![wav_file] = Holds(disk[wav_file].of, TRUE),
                            ![TmpOut("audio", wav_file)] = Gone]
    /\ touched' = Touch({wav_file, TmpOut("audio", wav_file)}, infile)
    /\ todo' = todo - 1
    /\ UNCHANGED <<runvars, before, confirmed, input_files, cleaned_wavs, infile, mpc, out_idx, failed_in>>

\* remove_silence_segment: the probe or the edit raises; nothing in main
\* catches it.
MainEditFail ==
    /\ mpc = "edit"
    /\ todo > 0
    /\ \E f \in {disk[TmpOut("audio", wav_file)], Unfinished} :
         disk' = [disk EXCEPT ![TmpOut("audio", wav_file)] = f]
    /\ touched' = Touch({wav_file, TmpOut("audio", wav_file)}, infile)
    /\ failed_in' = infile
    /\ mpc' = "crashed"
    /\ UNCHANGED <<runvars, before, confirmed, input_files, cleaned_wavs, infile, todo, out_idx>>

\* main, lines 246-247: process_audio_file returns the working file.
MainReturn ==
    /\ mpc = "edit"
    /\ todo = 0
    /\ cleaned_wavs' = Append(cleaned_wavs, wav_file)
    /\ infile' = infile + 1
    /\ mpc' = IF infile = Len(input_files) THEN "output" ELSE "convert"
    /\ UNCHANGED <<runvars, before, confirmed, input_files, todo, out_idx, disk, touched, failed_in>>

\* main, lines 255-257 and 274-276: the output exists and the answer is
\* not yes.
MainCancel ==
    /\ mpc = "output"
    /\ disk[output_mp3].exists
    /\ mpc' = "cancelled"
    /\ UNCHANGED <<runvars, before, confirmed, input_files, cleaned_wavs, infile, todo, out_idx, disk, touched,
                   failed_in>>

\* main, lines 259-262 and 277-280: the output does not exist or the answer
\* is yes; the working file is converted to MP3 and removed.
MainToMp3Ok ==
    /\ mpc = "output"
    /\ disk[cleaned_wav].exists /\ disk[cleaned_wav].complete
    /\ disk' = [disk EXCEPT ![output_mp3] = disk[cleaned_wav], ![cleaned_wav] = Gone]
    /\ touched' = Touch({cleaned_wav, output_mp3}, out_idx)
    /\ out_idx' = out_idx + 1
    /\ mpc' = IF out_idx = Len(input_files) THEN "complete" ELSE "output"
    /\ confirmed' = IF disk[output_mp3].exists THEN confirmed \cup {output_mp3} ELSE confirmed
    /\ UNCHANGED <<runvars, before, input_files, cleaned_wavs, infile, todo, failed_in>>

\* main, lines 260 and 278: the conversion to MP3 raises (it always does
\* when the working file is not there); nothing in main catches it.
MainToMp3Fail ==
    /\ mpc = "output"
    /\ \E f \in {disk[output_mp3], Unfinished} :
         disk' = [disk EXCEPT ![output_mp3] = f]
    /\ touched' = Touch({cleaned_wav, output_mp3}, out_idx)
    /\ failed_in' = out_idx
    /\ mpc' = "crashed"
    /\ confirmed' = IF disk[output_mp3].exists THEN confirmed \cup {output_mp3} ELSE confirmed
    /\ UNCHANGED <<runvars, before, input_files, cleaned_wavs, infile, todo, out_idx>>

MainNext ==
    \/ MainConvertOk
    \/ MainConvertFail
    \/ MainDetect
    \/ MainEditOk
    \/ MainEditFail
    \/ MainReturn
    \/ MainCancel
    \/ MainToMp3Ok
    \/ MainToMp3Fail

MainSpec == MainInit /\ [][MainNext]_vars

EndsWithDb(s) == Len(s) >= 2 /\ SubSeq(s, Len(s) - 1, Len(s)) = <<"d", "B">>

\* How many times "dB" is repeated at the end of s.
RECURSIVE TrailingDb(_)
TrailingDb(s) == IF EndsWithDb(s) THEN 1 + TrailingDb(SubSeq(s, 1, Len(s) - 2)) ELSE 0

\* C14 as stated: for every threshold string, the threshold given to the
\* detector ends with "dB" exactly once.
C14_ExactlyOneSuffix ==
    pc = "threshold_set" => TrailingDb(noise_param) = 1

\* C14: the threshold given to the detector ends with "dB"; the suffix is
\* appended when the string lacks it and not when it has it, so a threshold
\* that went through once comes back unchanged, and the suffix is there
\* once unless the given string already repeated it.
C14_SuffixOnce ==
    pc = "threshold_set" =>
        /\ EndsWithDb(noise_param)
        /\ EndsWithDb(noise) => noise_param = noise
        /\ ~EndsWithDb(noise) => noise_param = noise \o <<"d", "B">>
        /\ TrailingDb(noise_param) = Max(1, TrailingDb(noise))

C14_Witness ==
    /\ pc = "threshold_set"
    /\ noise = <<"5", "d", "B">>
    /\ noise_param = <<"5", "d", "B">>

\* The numbers after the silence_start: markers of the text, in order.
RECURSIVE StartNumbers(_)
StartNumbers(lines) ==
    IF lines = <<>> THEN <<>> ELSE lines[1].s \o StartNumbers(Tail(lines))

\* The numbers after the silence_end: markers of the text, in order.
RECURSIVE EndNumbers(_)
EndNumbers(lines) ==
    IF lines = <<>> THEN <<>> ELSE lines[1].e \o EndNumbers(Tail(lines))

\* C17: the parsed starts are exactly the numbers after the silence_start
\* markers, in emission order, and the parsed ends those after the
\* silence_end markers; a line with neither adds nothing and a line with
\* both adds one to each.
C17_ParseExact ==
    pc = "parsed" =>
        /\ Len(silence_starts) = Len(StartNumbers(output))
        /\ \A i \in 1..Len(silence_starts) : Num(silence_starts[i]) = StartNumbers(output)[i]
        /\ Len(silence_ends) = Len(EndNumbers(output))
        /\ \A i \in 1..Len(silence_ends) : Num(silence_ends[i]) = EndNumbers(output)[i]


\* No two inputs of the run have the same name up to the extension.
DistinctBases ==
    \A i, j \in 1..Len(input_files) :
        i # j => splitext(input_files[i]) # splitext(input_files[j])

\* C11: when an engine failure ends the handling of one of several inputs,
\* every other input has been processed and its final output is there,
\* holding its own cleaned audio.
C11_OnlyFailedInputAborted ==
    (mpc = "crashed" /\ Len(input_files) > 1 /\ DistinctBases) =>
        \A i \in 1..Len(input_files) :
            i # failed_in =>
                /\ Len(cleaned_wavs) >= i
                /\ disk[OutputMp3(input_files[i])].exists
                /\ disk[OutputMp3(input_files[i])].complete
                /\ disk[OutputMp3(input_files[i])].of = i

\* The working file and the temporary file of input i.
WorkPathsOf(i) ==
    {WorkingPath("audio", input_files[i]), TmpOut("audio", WorkingPath("audio", input_files[i]))}

\* C16: the working file and the temporary path of one input are never
\* read, written, replaced or deleted by the processing of another input.
C16_NoSharedPaths ==
    \A i \in 1..Len(input_files) :
        \A p \in WorkPathsOf(i) : touched[p] \subseteq {i}


\* How many times unit u occurs in stream s.
Occurrences(s, u) == Cardinality({n \in 1..Len(s) : s[n] = u})

\* The edit that made version j + 1 repeated nothing and lengthened nothing.
NothingRepeated(j) ==
    /\ \A u \in 1..MaxLen :
         /\ Occurrences(versions[j + 1].a, u) <= Occurrences(versions[j].a, u)
         /\ Occurrences(versions[j + 1].v, u) <= Occurrences(versions[j].v, u)
    /\ Len(versions[j + 1].a) <= Len(versions[j].a)
    /\ Len(versions[j + 1].v) <= Len(versions[j].v)

\* C21: for every interval applied, whatever the margin and the silence
\* length, the head and the tail the plan keeps do not overlap, no part of
\* the timeline before the edit occurs twice after it, and the working
\* file does not get longer.
C21_NoOverlapNoGrowth ==
    /\ (Planned /\ HasHead(cur.start) /\ HasTail(cur.end, total_duration)) => cur.start <= cur.end
    /\ \A j \in 1..(Len(versions) - 1) : NothingRepeated(j)


\* What path p held when main started, for p in before.
InitialFile(p) ==
    IF \E i \in 1..Len(input_files) : input_files[i] = p
    THEN Holds(CHOOSE i \in 1..Len(input_files) : input_files[i] = p, FALSE)
    ELSE Holds(0, FALSE)

\* C22: a file that was there before the run, the input included, still
\* holds what it held, unless it is a final output whose overwriting the
\* user allowed; and every working file the run returned for conversion
\* and removal is one that was not there before.
C22_PreexistingKept ==
    /\ \A p \in before : p \in confirmed \/ disk[p] = InitialFile(p)
    /\ \A i \in 1..Len(cleaned_wavs) : cleaned_wavs[i] \notin before

====
